---------------------------- MODULE Spec2Model ----------------------------
(* A model of pycbc/waveform/bank.py: FilterBank and CachedFilterBank.     *)
(*                                                                         *)
(* Frequencies are integers in a fixed unit, so that delta_f, f_lower and  *)
(* the generator's end frequencies are exact; int(x / y) of the source is  *)
(* TruncDiv(x, y).  An optional Python value is a sequence: None is << >>  *)
(* and a present value v is << v >>.  Python sequences are 0-based, the    *)
(* sequences of the model 1-based: element k of the source is [k + 1].     *)
EXTENDS Integers, Sequences, FiniteSets, TLC

VARIABLES
    kind,      \* "none" before construction, then "FilterBank" or "CachedFilterBank"
    file,      \* the template file on disk: [status, rows]
    bank,      \* the attributes the constructor sets (self.*), except table
    table,     \* self.table
    outbuf,    \* the samples of the caller-supplied buffer `out` (None without one)
    cache,     \* the cache store: a function from keys to raw sample arrays
    last,      \* the outcome of the last call: [op, index, status, htilde]
    fillArg,   \* history: the arguments [out, template] of get_waveform_filter in the last call
    fftInput,  \* history: the series as handed to to_frequencyseries by the last call
    memo,      \* history: one earlier successful get, [index, htilde]
    shadow     \* history: the same bank run without the calls whose generator failed

vars == <<kind, file, bank, table, outbuf, cache, last, fillArg, fftInput, memo, shadow>>

-----------------------------------------------------------------------------
(* Bounds of the model *)

MaxRows == 2        \* rows of the template file
FilterLength == 3   \* the filter_length handed to the constructors

(* Program constant, scaled: pycbc.DYN_RANGE_FAC *)
DYN_RANGE_FAC == 3

-----------------------------------------------------------------------------
(* Python values *)

None == << >>
Some(v) == << v >>
Val(o) == o[1]

\* int(a / b) for b > 0: truncation toward zero
TruncDiv(a, b) == IF a >= 0 THEN a \div b ELSE -((-a) \div b)

\* list indexing seq[i]: a negative i counts from the end
PyNorm(i, n) == IF i < 0 THEN i + n ELSE i

PyInRange(i, n) == PyNorm(i, n) >= 0 /\ PyNorm(i, n) < n

PyGet(seq, i) == seq[PyNorm(i, Len(seq)) + 1]

\* zeros(n)
Zeros(n) == [k \in 1..n |-> 0]

RECURSIVE SumTo(_, _, _)
SumTo(f, lo, hi) == IF lo > hi THEN 0 ELSE f[lo] + SumTo(f, lo + 1, hi)

-----------------------------------------------------------------------------
(* The template file and its rows *)

Masses == 1..6

Row(m) == [mass |-> m, template_duration |-> 0]

\* the tables the model loads: n consecutive masses, from any first one
Window(first, n) == [i \in 1..n |-> Row(((first + i - 2) % Cardinality(Masses)) + 1)]

Files ==
    {[status |-> "ok", rows |-> Window(first, n)] : first \in Masses, n \in 0..MaxRows}
    \cup {[status |-> s, rows |-> << >>] : s \in {"missing", "wrong_type", "corrupt"}}

\* ligolw_utils.load_filename followed by table.get_table: raises on a file
\* that is missing, is no LIGOLW document, or holds no sngl_inspiral table
LigolwLoad(f) ==
    IF f.status = "ok" THEN [exc |-> FALSE, table |-> f.rows]
    ELSE [exc |-> TRUE, table |-> << >>]

LoadTableNoCatch(f) ==
    LET r == LigolwLoad(f)
    IN [raised |-> r.exc, table |-> r.table]

\* try: ... except: self.table = []
LoadTable(f) ==
    LET r == LigolwLoad(f)
    IN IF r.exc THEN [raised |-> FALSE, table |-> << >>]
       ELSE [raised |-> FALSE, table |-> r.table]

\* __len__
BankLen(tbl) == Len(tbl)

-----------------------------------------------------------------------------
(* Numeric types *)

Dtypes == {"complex64", "complex128"}

\* the value x as the type dt stores it: single precision keeps fewer digits
RoundTo(x, dt) == IF dt = "complex64" THEN 2 * (x \div 2) ELSE x

\* Array.astype(dtype): the same samples when the type is already dtype,
\* else a converted copy
Astype(data, from, to) ==
    IF from = to THEN data ELSE [k \in 1..Len(data) |-> RoundTo(data[k], to)]

-----------------------------------------------------------------------------
(* The waveform generator, pycbc.waveform *)

Approximants == {"SPAtmplt", "TaylorF2"}

\* waveform_norm_exists(approximant)
WaveformNormExists(approximant) == approximant = "SPAtmplt"

\* get_waveform_end_frequency(template, approximant): None when undefined
GetWaveformEndFrequency(row, approximant) ==
    CASE row.mass = 1 -> None
      [] row.mass = 2 -> Some(3)
      [] row.mass = 3 -> Some(5)
      [] row.mass = 4 -> Some(9)
      [] row.mass = 5 -> Some(-3)
      [] OTHER        -> Some(0)

\* get_template_amplitude_norm(template, approximant): None when undefined
GetTemplateAmplitudeNorm(row, approximant) ==
    IF row.mass \in {2, 4} THEN Some(row.mass) ELSE None

\* the duration the generator attaches to its result, when it knows one
GeneratorLengthInTime(row) ==
    CASE row.mass \in {2, 3} -> Some(2)
      [] row.mass = 4        -> Some(5)
      [] OTHER               -> None

\* invalid physical parameters: the generator raises
GeneratorFails(row) == row.mass = 6

\* the number of bins, from kmin upward, the waveform of this row occupies
WaveformBins(row) == 2 - (row.mass % 2)

\* get_waveform_filter(out, template, approximant, f_lower, delta_f, distance):
\* writes the waveform into the bins it occupies and leaves the others of
\* `out` as they are.  inv_distance is 1 / distance; dt is the type of `out`;
\* junk is how many bins a failing generator wrote before it raised.
GetWaveformFilter(out, row, approximant, f_lower, delta_f, inv_distance, dt, junk) ==
    LET n == Len(out)
        kmin == TruncDiv(f_lower, delta_f)
        shift == IF approximant = "SPAtmplt" THEN 0 ELSE 1
        sample(k) == RoundTo(inv_distance * (row.mass + k + shift), dt)
    IN IF GeneratorFails(row)
       THEN [failed |-> TRUE,
             data |-> [i \in 1..n |->
                         IF i - 1 >= kmin /\ i - 1 < kmin + junk THEN 1 ELSE out[i]],
             delta_f |-> delta_f,
             length_in_time |-> None]
       ELSE [failed |-> FALSE,
             data |-> [i \in 1..n |->
                         IF i - 1 >= kmin /\ i - 1 < kmin + WaveformBins(row)
                         THEN sample(i - 1) ELSE out[i]],
             delta_f |-> delta_f,
             length_in_time |-> GeneratorLengthInTime(row)]

-----------------------------------------------------------------------------
(* Normalization, pycbc.filter.sigmasq and the precomputed vector *)

\* the noise spectrum handed to the constructors
Psd(n) == [k \in 1..n |-> 1 + (k % 2)]

\* sigmasq(htilde, psd, low_frequency_cutoff): the noise-weighted inner
\* product of htilde with itself from the cutoff bin upward
Sigmasq(data, delta_f, psd, f_lower) ==
    LET kmin == TruncDiv(f_lower, delta_f)
        term == [i \in 1..Len(data) |-> (4 * delta_f * data[i] * data[i]) \div psd[i]]
    IN SumTo(term, kmin + 1, Len(data))

\* get_waveform_filter_norm(approximant, psd, length, delta_f, f_lower):
\* entry k is the normalization of a unit-amplitude template ending in bin k
GetWaveformFilterNorm(approximant, psd, length, delta_f, f_lower) ==
    LET kmin == TruncDiv(f_lower, delta_f)
        term == [i \in 1..length |-> (4 * delta_f * i) \div psd[i]]
    IN IF WaveformNormExists(approximant)
       THEN Some([i \in 1..length |-> SumTo(term, kmin + 1, i)])
       ELSE None

-----------------------------------------------------------------------------
(* FilterBank *)

\* the arguments the callers of the model construct banks with
DeltaFs == {2}
FLowers == {2}
PsdChoices(n) == {None, Some(Psd(n))}

\* a caller-supplied `out`: None, or an array of some type; it holds the
\* N samples of a time-domain segment, of which the bank uses filter_length
OutChoices == {None} \cup {Some(dt) : dt \in Dtypes}
OutLength(filter_length) == (filter_length - 1) * 2
OutGarbage(filter_length) == [k \in 1..OutLength(filter_length) |-> 7]

InitialLast == [op |-> "none", index |-> 0, status |-> "ok", htilde |-> None]

BuildSigmasqVecAlways(psd, approximant, filter_length, delta_f, f_lower) ==
    IF psd # None
    THEN Some([i \in 1..filter_length |-> i])
    ELSE None

\* self.sigmasq_vec of FilterBank.__init__
BuildSigmasqVec(psd, approximant, filter_length, delta_f, f_lower) ==
    IF psd # None /\ WaveformNormExists(approximant)
    THEN GetWaveformFilterNorm(approximant, Val(psd), filter_length, delta_f, f_lower)
    ELSE None

\* FilterBank.__init__(filename, approximant, filter_length, delta_f, f_lower,
\*                     dtype, psd, out)
FilterBankInit ==
    /\ kind = "none"
    /\ \E approximant \in Approximants, delta_f \in DeltaFs, f_lower \in FLowers,
          dtype \in Dtypes, psd \in PsdChoices(FilterLength), out \in OutChoices :
        LET filter_length == FilterLength
            N == (filter_length - 1) * 2
            loaded == LoadTable(file)
        IN IF loaded.raised
           THEN /\ last' = [op |-> "init", index |-> 0, status |-> "LoadError",
                            htilde |-> None]
                /\ UNCHANGED <<kind, bank, table, outbuf, shadow>>
           ELSE /\ kind' = "FilterBank"
                /\ bank' = [out |-> out,
                            dtype |-> dtype,
                            f_lower |-> f_lower,
                            approximant |-> approximant,
                            delta_f |-> delta_f,
                            N |-> N,
                            sample_rate |-> N * delta_f,   \* 1 / delta_t
                            filter_length |-> filter_length,
                            kmin |-> TruncDiv(f_lower, delta_f),
                            psd |-> psd,
                            sigmasq_vec |-> BuildSigmasqVec(psd, approximant,
                                                filter_length, delta_f, f_lower)]
                /\ table' = loaded.table
                /\ outbuf' = IF out = None THEN None
                             ELSE Some(OutGarbage(filter_length))
                /\ last' = [op |-> "init", index |-> 0, status |-> "ok",
                            htilde |-> None]
                /\ shadow' = [bank |-> bank', table |-> table', outbuf |-> outbuf',
                              last |-> last', skipped |-> FALSE]
    /\ UNCHANGED <<file, cache, fillArg, fftInput, memo>>

\* if f_end is None or f_end >= (self.filter_length * self.delta_f): ...
ClampEndFrequency(f_end, filter_length, delta_f) ==
    IF f_end = None \/ Val(f_end) >= filter_length * delta_f
    THEN (filter_length - 1) * delta_f
    ELSE Val(f_end)

\* the samples `tempout` holds: a fresh zeros(filter_length) without `out`
SelectBuffer(out, buf, filter_length) ==
    IF out = None THEN Zeros(filter_length) ELSE Val(buf)

ClearNothing(buf) == buf

\* tempout.clear()
Clear(buf) == Zeros(Len(buf))

\* tempout[0:n], a view of the first n samples
Slice(buf, n) == SubSeq(buf, 1, IF n < Len(buf) THEN n ELSE Len(buf))

\* the buffer after its first samples were written through a view
WriteThrough(buf, view) ==
    [k \in 1..Len(buf) |-> IF k <= Len(view) THEN view[k] ELSE buf[k]]

TableLookupClamped(tbl, index) ==
    IF Len(tbl) = 0 THEN [exc |-> TRUE, at |-> 0]
    ELSE [exc |-> FALSE,
          at |-> IF PyInRange(index, Len(tbl)) THEN PyNorm(index, Len(tbl)) + 1
                 ELSE IF index < 0 THEN 1 ELSE Len(tbl)]

\* self.table[index]: the position of the row, or IndexError
TableLookup(tbl, index) ==
    IF PyInRange(index, Len(tbl))
    THEN [exc |-> FALSE, at |-> PyNorm(index, Len(tbl)) + 1]
    ELSE [exc |-> TRUE, at |-> 0]

RowParamsNext(tbl, at) == tbl[IF at < Len(tbl) THEN at + 1 ELSE 1]

\* htilde.params = self.table[index]
RowParams(tbl, at) == tbl[at]

\* htilde.sigmasq of FilterBank.__getitem__: unset without a psd, else from
\* the precomputed vector when there is one, else integrated directly
SigmaSquared(bk, row, data, end_idx) ==
    IF bk.psd = None THEN [exc |-> FALSE, value |-> None]
    ELSE IF bk.sigmasq_vec # None
    THEN LET vec == Val(bk.sigmasq_vec)
             amp == GetTemplateAmplitudeNorm(row, bk.approximant)
             amp_norm == IF amp = None THEN 1 ELSE Val(amp)
             scale == DYN_RANGE_FAC * amp_norm
         IN IF PyInRange(end_idx, Len(vec))
            THEN [exc |-> FALSE, value |-> Some(PyGet(vec, end_idx) * scale * scale)]
            ELSE [exc |-> TRUE, value |-> None]
    ELSE [exc |-> FALSE,
          value |-> Some(Sigmasq(data, bk.delta_f, Val(bk.psd), bk.f_lower))]

WriteBackWrongField(tbl, at, length_in_time) ==
    IF length_in_time # None
    THEN [tbl EXCEPT ![at].mass = Val(length_in_time)]
    ELSE tbl

WriteBackAllRows(tbl, at, length_in_time) ==
    IF length_in_time # None
    THEN [k \in 1..Len(tbl) |-> [tbl[k] EXCEPT !.template_duration = Val(length_in_time)]]
    ELSE tbl

\* self.table[index].template_duration = length_in_time
WriteBackDuration(tbl, at, length_in_time) ==
    IF length_in_time # None
    THEN [tbl EXCEPT ![at].template_duration = Val(length_in_time)]
    ELSE tbl

Outcome(status, htilde, tbl, buf, fill) ==
    [status |-> status, htilde |-> htilde, table |-> tbl, outbuf |-> buf, fill |-> fill]

\* FilterBank.__getitem__(index) on a bank with table tbl and buffer buf
FilterBankGet(bk, tbl, buf, index, junk) ==
    LET look == TableLookup(tbl, index)
    IN IF look.exc THEN Outcome("IndexError", None, tbl, buf, None)
       ELSE
       LET row == tbl[look.at]
           tempout == SelectBuffer(bk.out, buf, bk.filter_length)
           tempout_dt == IF bk.out = None THEN bk.dtype ELSE Val(bk.out)
           f_end == ClampEndFrequency(GetWaveformEndFrequency(row, bk.approximant),
                                      bk.filter_length, bk.delta_f)
           cleared == Clear(tempout)
           view == Slice(cleared, bk.filter_length)
           gen == GetWaveformFilter(view, row, bk.approximant, bk.f_lower,
                                    bk.delta_f, DYN_RANGE_FAC, tempout_dt, junk)
           written == IF bk.out = None THEN buf
                      ELSE Some(WriteThrough(cleared, gen.data))
       IN IF gen.failed
          THEN Outcome("GeneratorError", None, tbl, written, Some([out |-> view, template |-> row]))
          ELSE
          LET length_in_time == gen.length_in_time
              data == Astype(gen.data, tempout_dt, bk.dtype)
              end_frequency == f_end
              end_idx == TruncDiv(end_frequency, gen.delta_f)
              sig == SigmaSquared(bk, row, data, end_idx)
              tbl2 == WriteBackDuration(tbl, look.at, length_in_time)
          IN IF sig.exc
             THEN Outcome("IndexError", None, tbl, written, Some([out |-> view, template |-> row]))
             ELSE Outcome("ok",
                          Some([data |-> data,
                                delta_f |-> gen.delta_f,
                                end_frequency |-> Some(end_frequency),
                                end_idx |-> Some(end_idx),
                                params |-> RowParams(tbl2, look.at),
                                sigmasq |-> sig.value,
                                length_in_time |-> length_in_time]),
                          tbl2, written, Some([out |-> view, template |-> row]))

\* the indices the callers of the model ask for
Indices == (-(MaxRows + 1))..MaxRows

FilterBankGetItem ==
    /\ kind = "FilterBank"
    /\ \E index \in Indices, junk \in 0..bank.filter_length :
       \E r \in {FilterBankGet(bank, table, outbuf, index, junk)} :
           /\ (junk = 0 \/ r.status = "GeneratorError")
           /\ table' = r.table
           /\ outbuf' = r.outbuf
           /\ fillArg' = r.fill
           /\ last' = [op |-> "get", index |-> index, status |-> r.status,
                       htilde |-> r.htilde]
           /\ IF r.status = "GeneratorError"
              THEN shadow' = [shadow EXCEPT !.skipped = TRUE]
              ELSE \E q \in {FilterBankGet(shadow.bank, shadow.table, shadow.outbuf,
                                           index, junk)} :
                     shadow' = [bank |-> shadow.bank, table |-> q.table,
                                outbuf |-> q.outbuf, skipped |-> shadow.skipped,
                                last |-> [op |-> "get", index |-> index,
                                          status |-> q.status, htilde |-> q.htilde]]
           /\ memo' \in IF memo = None /\ r.status = "ok"
                        THEN {None, Some([index |-> index, htilde |-> Val(r.htilde),
                                         template |-> Val(r.fill).template])}
                        ELSE {memo}
    /\ UNCHANGED <<kind, file, bank, cache, fftInput>>

-----------------------------------------------------------------------------
(* CachedFilterBank *)

\* the rate the cached templates were sampled at: delta_t = 1.0 / 4096
CachedSampleRate == 4096

\* the raw samples stored under a key: nonzero, and all different
Raw(key, n) == [i \in 1..n |-> 10 * (key + 1) + i]

\* the cache stores the model opens: keys "0" .. str(n - 1), written as the
\* integers they are the string forms of
CacheChoices ==
    {[k \in 0..(n - 1) |-> Raw(k, len)] :
        n \in 0..(MaxRows + 1), len \in 0..OutLength(FilterLength)}

\* TimeSeries.resize(n): zero-pad or truncate
Resize(x, n) == [i \in 1..n |-> IF i <= Len(x) THEN x[i] ELSE 0]

\* Array.roll(shift): sample i moves to (i + shift) modulo the length
Roll(x, shift) ==
    LET n == Len(x)
    IN IF n = 0 THEN x ELSE [i \in 1..n |-> x[((i - 1 - shift) % n) + 1]]

\* TimeSeries.to_frequencyseries(): a real transform to n / 2 + 1 bins; bin k
\* correlates the series with a square wave of k cycles
ToFrequencySeries(x) ==
    LET n == Len(x)
        term(k) == [i \in 1..n |->
                      IF ((2 * k * (i - 1)) \div n) % 2 = 0 THEN x[i] ELSE -x[i]]
    IN [b \in 1..((n \div 2) + 1) |-> SumTo(term(b - 1), 1, n)]

CachedTimeSeriesForward(raw, N) ==
    Roll(Resize(raw, N), Len(raw))

\* template.resize(self.N); template.roll(-template_size)
CachedTimeSeries(raw, N) ==
    LET template_size == Len(raw)
    IN Roll(Resize(raw, N), -template_size)

\* CachedFilterBank.__init__(filename, cache_name, filter_length, delta_f,
\*                           f_lower, dtype, psd)
CachedFilterBankInit ==
    /\ kind = "none"
    /\ \E delta_f \in DeltaFs, f_lower \in FLowers, dtype \in Dtypes,
          opens \in BOOLEAN, store \in CacheChoices :
        LET filter_length == FilterLength
            loaded == LoadTable(file)
        IN IF ~opens \/ loaded.raised
           THEN /\ last' = [op |-> "init", index |-> 0,
                            status |-> IF ~opens THEN "IOError" ELSE "LoadError",
                            htilde |-> None]
                /\ UNCHANGED <<kind, bank, table, cache, shadow>>
           ELSE /\ kind' = "CachedFilterBank"
                /\ bank' = [filter_length |-> filter_length,
                            delta_f |-> delta_f,
                            f_lower |-> f_lower,
                            dtype |-> dtype,
                            psd |-> Some(Psd(filter_length)),
                            sigmasq_vec |-> None,
                            N |-> (filter_length - 1) * 2]
                /\ cache' = store
                /\ table' = loaded.table
                /\ last' = [op |-> "init", index |-> 0, status |-> "ok",
                            htilde |-> None]
                /\ shadow' = [bank |-> bank', table |-> table', outbuf |-> outbuf,
                              last |-> last', skipped |-> FALSE]
    /\ UNCHANGED <<file, outbuf, fillArg, fftInput, memo>>

\* CachedFilterBank.__getitem__(index)
CachedFilterBankGetItem ==
    /\ kind = "CachedFilterBank"
    /\ \E index \in Indices :
        IF index \notin DOMAIN cache
        THEN /\ last' = [op |-> "get", index |-> index, status |-> "KeyError",
                         htilde |-> None]
             /\ fftInput' = None
        ELSE LET template == CachedTimeSeries(cache[index], bank.N)
                 htilde == Resize(ToFrequencySeries(template), bank.filter_length)
                 sigmasq == Sigmasq(htilde, CachedSampleRate \div bank.N,
                                    Val(bank.psd), bank.f_lower)
                 look == TableLookup(table, index)
             IN /\ fftInput' = Some(template)
                /\ last' = IF look.exc
                           THEN [op |-> "get", index |-> index,
                                 status |-> "IndexError", htilde |-> None]
                           ELSE [op |-> "get", index |-> index, status |-> "ok",
                                 htilde |->
                                   Some([data |-> htilde,
                                         delta_f |-> CachedSampleRate \div bank.N,
                                         end_frequency |-> None,
                                         end_idx |-> None,
                                         params |-> RowParams(table, look.at),
                                         sigmasq |-> Some(sigmasq),
                                         length_in_time |-> None])]
    /\ shadow' = [shadow EXCEPT !.last = last']
    /\ UNCHANGED <<kind, file, bank, table, outbuf, cache, fillArg, memo>>

-----------------------------------------------------------------------------
(* The specification *)

Init ==
    /\ kind = "none"
    /\ file \in Files
    /\ bank = None
    /\ table = << >>
    /\ outbuf = None
    /\ cache = << >>
    /\ last = InitialLast
    /\ fillArg = None
    /\ fftInput = None
    /\ memo = None
    /\ shadow = [bank |-> None, table |-> << >>, outbuf |-> None, last |-> InitialLast,
                 skipped |-> FALSE]

Next ==
    \/ FilterBankInit
    \/ FilterBankGetItem
    \/ CachedFilterBankInit
    \/ CachedFilterBankGetItem

Spec == Init /\ [][Next]_vars

-----------------------------------------------------------------------------
(* Properties *)

\* the last call was a get that returned a filter
Returned == last.op = "get" /\ last.status = "ok"
Filter == Val(last.htilde)

\* the position in the table the last get addressed
Addressed == PyNorm(last.index, Len(table)) + 1

\* the fields of a filter other than its back-reference to the table row
Numeric(h) == [data |-> h.data, end_frequency |-> h.end_frequency,
               end_idx |-> h.end_idx, sigmasq |-> h.sigmasq,
               length_in_time |-> h.length_in_time]

\* C1: every filter a FilterBank returns has end_idx in [0, filter_length-1]
\* and end_frequency in (0, (filter_length-1)*delta_f], whatever end frequency
\* the generator reported.
C1_EndInRange ==
    (kind = "FilterBank" /\ Returned) =>
        /\ Val(Filter.end_idx) \in 0..(bank.filter_length - 1)
        /\ Val(Filter.end_frequency) > 0
        /\ Val(Filter.end_frequency) <= (bank.filter_length - 1) * bank.delta_f

\* C2: on a bank with a caller-supplied buffer, the buffer handed to the
\* generator's fill is all zeros, and the returned template is zero in every
\* bin the generator did not write for this template.
C2_BufferZeroAtFill ==
    (kind = "FilterBank" /\ bank.out # None /\ last.op = "get" /\ fillArg # None) =>
        /\ \A k \in 1..Len(Val(fillArg).out) : Val(fillArg).out[k] = 0
        /\ Returned =>
             \A k \in 1..Len(Filter.data) :
                 (k - 1 < bank.kmin \/ k - 1 >= bank.kmin + WaveformBins(Filter.params))
                     => Filter.data[k] = 0

\* C2 witness: a get on a shared buffer that follows a get of another index
\* whose template had a sample where the later template has none.
C2_Witness ==
    /\ kind = "FilterBank" /\ bank.out # None /\ Returned /\ memo # None
    /\ Val(memo).index # last.index
    /\ \E k \in 1..Len(Filter.data) :
           Val(memo).htilde.data[k] # 0 /\ Filter.data[k] = 0
    /\ \A k \in 1..Len(Val(fillArg).out) : Val(fillArg).out[k] = 0

\* C3: a constructor given a missing, wrongly-typed or corrupt template file
\* raises nothing (the cache store having opened) and the bank has length 0.
C3_UnreadableFileEmptyBank ==
    (file.status # "ok") =>
        /\ (last.op = "init" /\ last.status # "IOError") =>
               (last.status = "ok" /\ kind # "none")
        /\ (kind # "none") => BankLen(table) = 0

C3_Witness ==
    /\ file.status \in {"missing", "wrong_type", "corrupt"}
    /\ kind = "FilterBank" /\ last.op = "init" /\ last.status = "ok"
    /\ BankLen(table) = 0

\* C4: len(bank) is the number of rows of the loaded file, and a filter
\* returned for a valid index i carries row i of the table as params, after
\* any earlier get calls.
C4_LenAndParams ==
    (kind # "none") =>
        /\ BankLen(table) = Len(file.rows)
        /\ (Returned /\ last.index \in 0..(BankLen(table) - 1)) =>
               /\ Filter.params = table[last.index + 1]
               /\ Filter.params.mass = file.rows[last.index + 1].mass

\* C4 witness: the second row is returned after an earlier get of the first.
C4_Witness ==
    /\ kind = "FilterBank" /\ Returned /\ last.index = 1
    /\ memo # None /\ Val(memo).index = 0
    /\ Filter.params = table[2]
    /\ table[1].template_duration # 0

\* C5: with private per-call allocation, a get of an index returns the same
\* data, end_frequency, end_idx, sigma_squared and duration as an earlier
\* get of that index.
C5_RepeatIdentical ==
    (kind = "FilterBank" /\ bank.out = None /\ Returned /\ memo # None
        /\ Val(memo).index = last.index) =>
        Numeric(Filter) = Numeric(Val(memo).htilde)

\* C5 witness: the earlier get saw the row before the duration was written
\* back, the later one after.
C5_Witness ==
    /\ kind = "FilterBank" /\ bank.out = None /\ Returned /\ memo # None
    /\ Val(memo).index = last.index
    /\ Val(memo).template.template_duration = 0
    /\ Val(fillArg).template.template_duration # 0
    /\ Numeric(Filter) = Numeric(Val(memo).htilde)

\* C6: the normalization is selected by the two construction-time facts:
\* without a noise spectrum there is no vector and sigmasq is unset; with a
\* spectrum and an approximant that has a precomputed norm the vector exists
\* and sigmasq = vector[end_idx] * (DYN_RANGE_FAC * amp_norm)^2, amp_norm
\* being 1 when the generator reports none; with a spectrum and no
\* precomputed norm there is no vector and sigmasq is the direct integral.
C6_NormalizationStrategy ==
    (kind = "FilterBank") =>
        LET fast == bank.psd # None /\ WaveformNormExists(bank.approximant)
        IN /\ (bank.sigmasq_vec # None) <=> fast
           /\ Returned =>
                LET h == Filter
                    amp == GetTemplateAmplitudeNorm(h.params, bank.approximant)
                    amp_norm == IF amp = None THEN 1 ELSE Val(amp)
                    vec == Val(GetWaveformFilterNorm(bank.approximant, Val(bank.psd),
                               bank.filter_length, bank.delta_f, bank.f_lower))
                IN CASE bank.psd = None -> h.sigmasq = None
                     [] fast ->
                          h.sigmasq = Some(PyGet(vec, Val(h.end_idx))
                                           * (DYN_RANGE_FAC * amp_norm)
                                           * (DYN_RANGE_FAC * amp_norm))
                     [] OTHER ->
                          h.sigmasq = Some(Sigmasq(h.data, bank.delta_f,
                                                   Val(bank.psd), bank.f_lower))

\* C6 witness: the fast path with the default amplitude norm.
C6_Witness ==
    /\ kind = "FilterBank" /\ Returned
    /\ bank.psd # None /\ bank.sigmasq_vec # None
    /\ GetTemplateAmplitudeNorm(Filter.params, bank.approximant) = None
    /\ Filter.sigmasq # None /\ Val(Filter.sigmasq) > 0

\* C7: a get changes nothing of the table but template_duration of the row
\* it addresses, and that only when the generator reports a duration, to the
\* value attached to the returned filter as length_in_time; the table keeps
\* its length, its order and every other field.
C7_TableFrame ==
    [][(kind = "FilterBank" /\ last'.op = "get") =>
          /\ Len(table') = Len(table)
          /\ \A k \in 1..Len(table) : table'[k].mass = table[k].mass
          /\ IF last'.status = "ok" /\ Val(last'.htilde).length_in_time # None
             THEN LET at == PyNorm(last'.index, Len(table)) + 1
                  IN /\ table'[at].template_duration
                           = Val(Val(last'.htilde).length_in_time)
                     /\ \A k \in 1..Len(table) : k # at => table'[k] = table[k]
             ELSE table' = table]_vars

\* C7 witness: a duration written on one row of two, the other untouched.
C7_Witness ==
    /\ kind = "FilterBank" /\ Returned /\ Len(table) = 2
    /\ Filter.length_in_time # None
    /\ table[Addressed].template_duration = Val(Filter.length_in_time)
    /\ \E k \in 1..2 : k # Addressed /\ table[k].template_duration = 0
                        /\ GeneratorLengthInTime(table[k]) # None

\* C8 as stated: a get with an index outside [0, len(bank)-1] ends in an
\* error and returns no filter.
C8_Original ==
    (last.op = "get" /\ last.index \notin 0..(BankLen(table) - 1)) =>
        (last.status \in {"IndexError", "KeyError"} /\ last.htilde = None)

\* C8 amended: a FilterBank get with index >= len(bank) or index < -len(bank)
\* ends in IndexError and returns no filter, while an index in
\* [-len(bank), -1] counts from the end of the table; a CachedFilterBank get
\* with an index outside [0, len(bank)-1] ends in KeyError or IndexError.
C8_OutOfRange ==
    /\ (kind = "FilterBank" /\ last.op = "get") =>
          /\ (last.index >= BankLen(table) \/ last.index < -BankLen(table)) =>
                 (last.status = "IndexError" /\ last.htilde = None)
          /\ (Returned /\ last.index < 0) =>
                 Filter.params = table[BankLen(table) + last.index + 1]
    /\ (kind = "CachedFilterBank" /\ last.op = "get"
           /\ last.index \notin 0..(BankLen(table) - 1)) =>
          (last.status \in {"IndexError", "KeyError"} /\ last.htilde = None)

C8_Witness ==
    /\ kind = "FilterBank" /\ last.op = "get" /\ BankLen(table) > 0
    /\ last.index = BankLen(table)
    /\ last.status = "IndexError" /\ last.htilde = None

\* C9: a get whose generator failed leaves the table and the configuration
\* as they were, and every later get returns what it returns on the bank
\* that never made the failed call, with or without a shared buffer.
C9_FailureIsLocal ==
    (kind = "FilterBank") =>
        /\ table = shadow.table
        /\ bank = shadow.bank
        /\ (last.op = "get" /\ last.status # "GeneratorError") => last = shadow.last

\* C9 witness: a filter returned from a shared buffer after a failed call.
C9_Witness ==
    /\ kind = "FilterBank" /\ bank.out # None /\ Returned /\ shadow.skipped
    /\ last = shadow.last
    /\ \E k \in 1..Len(Filter.data) : k - 1 >= bank.kmin /\ Filter.data[k] = 0

\* C10 as stated: the series handed to the transform has length N, is the
\* zero-padded entry rolled by -L, and starts with the final samples of the
\* cached waveform.
C10_Original ==
    (kind = "CachedFilterBank" /\ last.op = "get" /\ fftInput # None) =>
        LET x == Val(fftInput)
            raw == cache[last.index]
            L == Len(raw)
        IN /\ Len(x) = bank.N
           /\ \A i \in 1..bank.N :
                  x[i] = Resize(raw, bank.N)[((i - 1 + L) % bank.N) + 1]
           /\ L >= 1 => \E t \in 1..L : \A j \in 1..t : x[j] = raw[L - t + j]

\* C10 amended: the series handed to the transform has length N and is the
\* zero-padded entry rolled by -L, which puts the whole cached waveform in
\* the last L samples, its final sample last, after N - L zeros.
C10_WaveformAtEnd ==
    (kind = "CachedFilterBank" /\ last.op = "get" /\ fftInput # None) =>
        LET x == Val(fftInput)
            raw == cache[last.index]
            L == Len(raw)
        IN /\ Len(x) = bank.N
           /\ \A i \in 1..bank.N :
                  x[i] = IF i <= bank.N - L THEN 0 ELSE raw[i - (bank.N - L)]

C10_Witness ==
    /\ kind = "CachedFilterBank" /\ last.op = "get" /\ fftInput # None
    /\ Len(cache[last.index]) >= 1
    /\ Len(cache[last.index]) < bank.N
    /\ Val(fftInput)[1] = 0
    /\ Val(fftInput)[bank.N] = cache[last.index][Len(cache[last.index])]

=============================================================================
